---- MODULE Spec2Model ----
(***************************************************************************)
(* supply_chain_optimization.py: a batch script that reads shipment rows,  *)
(* sums the weight per (warehouse, mode) cell, builds a linear program     *)
(* (minimum cost under mass balance, 20%/50% per-mode shares and 1.1x      *)
(* per-warehouse capacity), solves it with PuLP and reports the values.    *)
(*                                                                         *)
(* Weights are integers: rows carry whole grams, kilograms are whole       *)
(* because every modelled row weighs a multiple of 10 kg.  The shares 0.2, *)
(* 0.5 and 1.1 are kept exact as tenths: a constraint  lhs <sense> t/10    *)
(* is stored with rhs = t and read as  10 * lhs <sense> t.                 *)
(* With row weights that are multiples of 10 kg every right-hand side is a *)
(* whole number of kg, and the constraint matrix is that of a flow network *)
(* (source -> modes -> warehouses -> sink), so every vertex of the         *)
(* feasible region is integral: the solver is modelled over whole kg.      *)
(***************************************************************************)
EXTENDS Integers, Sequences, FiniteSets, TLC

VARIABLES csv, data, grouped_data, total_actual_weight, problem, status,
          varValue, results, mode_totals, warehouse_totals, minimized_cost,
          pc, error

vars == <<csv, data, grouped_data, total_actual_weight, problem, status,
          varValue, results, mode_totals, warehouse_totals, minimized_cost,
          pc, error>>

---------------------------------------------------------------------------
(* Bound of the model: the number of rows of train.csv *)

MaxRecords == 3

(* Values of the program *)

(* Warehouse blocks and shipment modes that occur in the rows, each in the *)
(* alphabetical order groupby sorts by.                                    *)
WarehouseOrder == <<"A", "B">>
ModeOrder == <<"Flight", "Road", "Ship">>

(* Row weights in grams: whole multiples of 10 kg *)
RowWeights == <<10000, 20000>>

cost_per_kg == [Flight |-> 20, Ship |-> 10, Road |-> 5]

(* cost_per_kg.keys() in insertion order *)
CostModes == <<"Flight", "Ship", "Road">>

MinShareTenths == 2
MaxShareTenths == 5
CapacityTenths == 11

---------------------------------------------------------------------------
(* Helpers *)

RECURSIVE SumSeq(_)
SumSeq(s) == IF s = <<>> THEN 0 ELSE Head(s) + SumSeq(Tail(s))

Min(S) == CHOOSE a \in S : \A b \in S : a <= b

Max(S) == CHOOSE a \in S : \A b \in S : a >= b

Row(w, m, g) == [Warehouse_block |-> w, Mode_of_Shipment |-> m, Weight_in_gms |-> g]

---------------------------------------------------------------------------
(* Inputs: the rows of train.csv *)

RowTypes ==
    [i \in 1..(Len(WarehouseOrder) * Len(ModeOrder) * Len(RowWeights)) |->
        LET z == i - 1
            w == z \div (Len(ModeOrder) * Len(RowWeights))
            m == (z \div Len(RowWeights)) % Len(ModeOrder)
            q == z % Len(RowWeights)
        IN Row(WarehouseOrder[w + 1], ModeOrder[m + 1], RowWeights[q + 1])]

(* Files of at most MaxRecords rows, rows listed in one canonical order    *)
(* (the per-cell sums do not depend on the order of the rows).             *)
BoundedInputs ==
    UNION {{[i \in 1..n |-> RowTypes[ix[i]]] :
              ix \in {f \in [1..n -> 1..Len(RowTypes)] :
                        \A i \in 1..n, j \in 1..n : i < j => f[i] <= f[j]}} :
           n \in 0..MaxRecords}

ScenarioA == <<Row("A", "Road", 100000)>>

ScenarioB == <<Row("A", "Flight", 40000), Row("A", "Ship", 30000), Row("A", "Road", 30000)>>

(* A row whose mode has no entry in cost_per_kg *)
ScenarioUnknownMode == <<Row("A", "Rail", 10000)>>

(* groupby sorts the keys: an unknown mode "Rail" falls between Flight and Road *)
GroupModeOrder == <<"Flight", "Rail", "Road", "Ship">>

(* Most of the weight at one warehouse: the capacity rows decide *)
ScenarioConcentrated ==
    <<Row("A", "Flight", 10000), Row("B", "Ship", 30000), Row("B", "Road", 30000)>>

(* Two warehouses share a mode: the least cost is reached at several points *)
ScenarioShared ==
    <<Row("A", "Flight", 10000), Row("A", "Road", 30000),
      Row("B", "Road", 30000), Row("B", "Ship", 20000)>>

Inputs ==
    BoundedInputs \cup {ScenarioA, ScenarioB, ScenarioUnknownMode,
                        ScenarioConcentrated, ScenarioShared}

---------------------------------------------------------------------------
(* Lines 7-10: read the file, add the Weight_in_kg column *)

ToKg(g) == g \div 1000

WithKg(rows) ==
    [i \in DOMAIN rows |->
        [Warehouse_block |-> rows[i].Warehouse_block,
         Mode_of_Shipment |-> rows[i].Mode_of_Shipment,
         Weight_in_kg |-> ToKg(rows[i].Weight_in_gms)]]

(* Lines 19-21: groupby(['Warehouse_block','Mode_of_Shipment']).sum() *)

CellWeight(d, w, m) ==
    SumSeq([i \in DOMAIN d |->
              IF d[i].Warehouse_block = w /\ d[i].Mode_of_Shipment = m
              THEN d[i].Weight_in_kg ELSE 0])

AllKeys ==
    [i \in 1..(Len(WarehouseOrder) * Len(GroupModeOrder)) |->
        <<WarehouseOrder[((i - 1) \div Len(GroupModeOrder)) + 1],
          GroupModeOrder[((i - 1) % Len(GroupModeOrder)) + 1]>>]

KeyPresent(d, k) ==
    \E i \in DOMAIN d : d[i].Warehouse_block = k[1] /\ d[i].Mode_of_Shipment = k[2]

GroupBy(d) ==
    LET keys == SelectSeq(AllKeys, LAMBDA k : KeyPresent(d, k))
    IN [i \in DOMAIN keys |->
          [Warehouse_block |-> keys[i][1],
           Mode_of_Shipment |-> keys[i][2],
           Weight_in_kg |-> CellWeight(d, keys[i][1], keys[i][2])]]

TotalWeight(d) == SumSeq([i \in DOMAIN d |-> d[i].Weight_in_kg])

---------------------------------------------------------------------------
(* Lines 23-63: the linear program.  vars lists the keys of decision_vars  *)
(* in dictionary order; a constraint is  10 * sum(vars) <sense> rhs.       *)

\* lines 26-31: one variable per row of grouped_data, lowBound = 0
DecisionVars(g) == [i \in DOMAIN g |-> <<g[i].Warehouse_block, g[i].Mode_of_Shipment>>]

\* mutant: every variable enters the objective with coefficient 1
ObjectiveUnitCost(g) == [i \in DOMAIN g |-> 1]

\* lines 34-37: coefficient of each variable in the objective
Objective(g) == [i \in DOMAIN g |-> cost_per_kg[g[i].Mode_of_Shipment]]

\* mutant: the mass balance written as an upper bound
MassBalanceAtMost(keys, total) ==
    [kind |-> "mass_balance", tag |-> "", vars |-> DOMAIN keys, sense |-> "LE",
     rhs |-> 10 * total]

\* line 42: lpSum(decision_vars.values()) == total_actual_weight
MassBalance(keys, total) ==
    [kind |-> "mass_balance", tag |-> "", vars |-> DOMAIN keys, sense |-> "EQ",
     rhs |-> 10 * total]

\* mutant: the mode is compared with key[0], the warehouse
MinAllocationByWarehouse(keys, total, mode) ==
    [kind |-> "min_allocation", tag |-> mode,
     vars |-> {i \in DOMAIN keys : keys[i][1] = mode}, sense |-> "GE",
     rhs |-> MinShareTenths * total]

\* lines 45-49: for each mode of cost_per_kg, sum over key[1] == mode >= 0.2 * total
MinAllocation(keys, total, mode) ==
    [kind |-> "min_allocation", tag |-> mode,
     vars |-> {i \in DOMAIN keys : keys[i][2] = mode}, sense |-> "GE",
     rhs |-> MinShareTenths * total]

\* mutant: the mode is compared with key[0], the warehouse
MaxAllocationByWarehouse(keys, total, mode) ==
    [kind |-> "max_allocation", tag |-> mode,
     vars |-> {i \in DOMAIN keys : keys[i][1] = mode}, sense |-> "LE",
     rhs |-> MaxShareTenths * total]

\* mutant: the cap is written with the share of the floor, 0.2
MaxAllocationMinShare(keys, total, mode) ==
    [kind |-> "max_allocation", tag |-> mode,
     vars |-> {i \in DOMAIN keys : keys[i][2] = mode}, sense |-> "LE",
     rhs |-> MinShareTenths * total]

\* lines 52-56: for each mode of cost_per_kg, sum over key[1] == mode <= 0.5 * total
MaxAllocation(keys, total, mode) ==
    [kind |-> "max_allocation", tag |-> mode,
     vars |-> {i \in DOMAIN keys : keys[i][2] = mode}, sense |-> "LE",
     rhs |-> MaxShareTenths * total]

\* line 63: the summed historical weight of the rows of grouped_data at the warehouse
WarehouseWeight(g, warehouse) ==
    SumSeq([i \in DOMAIN g |->
              IF g[i].Warehouse_block = warehouse THEN g[i].Weight_in_kg ELSE 0])

\* mutant: the capacity is taken from the weight of all warehouses
CapacityOfTotal(keys, g, warehouse) ==
    [kind |-> "capacity", tag |-> warehouse,
     vars |-> {i \in DOMAIN keys : keys[i][1] = warehouse}, sense |-> "LE",
     rhs |-> CapacityTenths * SumSeq([i \in DOMAIN g |-> g[i].Weight_in_kg])]

\* lines 59-63: for each warehouse, sum over key[0] == warehouse <= 1.1 * its weight
Capacity(keys, g, warehouse) ==
    [kind |-> "capacity", tag |-> warehouse,
     vars |-> {i \in DOMAIN keys : keys[i][1] = warehouse}, sense |-> "LE",
     rhs |-> CapacityTenths * WarehouseWeight(g, warehouse)]

\* grouped_data['Warehouse_block'].unique(), in order of first appearance
UniqueWarehouses(g) ==
    SelectSeq(WarehouseOrder, LAMBDA w : \E i \in DOMAIN g : g[i].Warehouse_block = w)

Constraints(g, total) ==
    LET keys == DecisionVars(g)
        whs == UniqueWarehouses(g)
    IN <<MassBalance(keys, total)>>
       \o [i \in DOMAIN CostModes |-> MinAllocation(keys, total, CostModes[i])]
       \o [i \in DOMAIN CostModes |-> MaxAllocation(keys, total, CostModes[i])]
       \o [i \in DOMAIN whs |-> Capacity(keys, g, whs[i])]

BuildProblem(g, total) ==
    [vars |-> DecisionVars(g), objective |-> Objective(g),
     constraints |-> Constraints(g, total)]

NoProblem == [vars |-> <<>>, objective |-> <<>>, constraints |-> <<>>]

\* line 35: cost_per_kg[row.Mode_of_Shipment] raises KeyError for a mode it lacks
UnknownMode(g) == \E i \in DOMAIN g : g[i].Mode_of_Shipment \notin DOMAIN cost_per_kg

---------------------------------------------------------------------------
(* Line 66: problem.solve().  An assignment x is a sequence of whole kg,   *)
(* x[i] the value of the variable lp.vars[i].                              *)

\* 10 * (sum of the variables of constraint c)
Lhs(c, x) == 10 * SumSeq([i \in DOMAIN x |-> IF i \in c.vars THEN x[i] ELSE 0])

Holds(c, x) ==
    CASE c.sense = "EQ" -> Lhs(c, x) = c.rhs
      [] c.sense = "GE" -> Lhs(c, x) >= c.rhs
      [] c.sense = "LE" -> Lhs(c, x) <= c.rhs

Feasible(lp, x) ==
    /\ \A i \in DOMAIN x : x[i] >= 0
    /\ \A j \in DOMAIN lp.constraints : Holds(lp.constraints[j], x)

ObjectiveValue(lp, x) == SumSeq([i \in DOMAIN x |-> lp.objective[i] * x[i]])

(* The search of the feasible region, variable by variable.  A node of    *)
(* the search holds the values chosen so far (x), what is left of each    *)
(* row (res[j]: its rhs less 10 * the values chosen) and the cost so far. *)

Root(lp) ==
    [x |-> <<>>, res |-> [j \in DOMAIN lp.constraints |-> lp.constraints[j].rhs],
     cost |-> 0]

\* for each variable i: the rows it occurs in, those of them that bound it above
\* (the variables after it are >= 0), and those that bound it below (a lower
\* bound binds on the last variable of its row); and the value up to which a
\* variable no row bounds above is searched, the largest right-hand side
Plan(lp) ==
    [ceiling |->
        Max({0} \cup {lp.constraints[j].rhs \div 10 : j \in DOMAIN lp.constraints}),
     rows |->
        [i \in DOMAIN lp.vars |->
            [all |-> {j \in DOMAIN lp.constraints : i \in lp.constraints[j].vars},
             ups |-> {j \in DOMAIN lp.constraints :
                        /\ i \in lp.constraints[j].vars
                        /\ lp.constraints[j].sense \in {"LE", "EQ"}},
             lows |-> {j \in DOMAIN lp.constraints :
                         /\ i \in lp.constraints[j].vars
                         /\ lp.constraints[j].sense \in {"GE", "EQ"}
                         /\ \A n \in lp.constraints[j].vars : n <= i}]]]

\* the largest value the next variable can take
Hi(plan, node) ==
    LET r == plan.rows[Len(node.x) + 1]
    IN IF r.ups = {} THEN plan.ceiling ELSE Min({node.res[j] \div 10 : j \in r.ups})

\* the smallest value the next variable can take: lowBound is 0
Lo(plan, node) ==
    LET r == plan.rows[Len(node.x) + 1]
    IN Max({0} \cup {(node.res[j] + 9) \div 10 : j \in r.lows})

\* the nodes that give the next variable a value
Children(lp, plan, node) ==
    LET i == Len(node.x) + 1
    IN {[x |-> Append(node.x, v),
         res |-> [j \in DOMAIN node.res |->
                    IF j \in plan.rows[i].all THEN node.res[j] - 10 * v
                    ELSE node.res[j]],
         cost |-> node.cost + lp.objective[i] * v] :
          v \in Lo(plan, node)..Hi(plan, node)}

RowMet(c, r) ==
    CASE c.sense = "EQ" -> r = 0
      [] c.sense = "GE" -> r <= 0
      [] c.sense = "LE" -> r >= 0

AllRowsMet(lp, res) == \A j \in DOMAIN res : RowMet(lp.constraints[j], res[j])

\* a row over no variable is decided before any variable is chosen
EmptyRowsMet(lp) ==
    \A j \in DOMAIN lp.constraints :
        lp.constraints[j].vars = {} => RowMet(lp.constraints[j], lp.constraints[j].rhs)

RECURSIVE Reaches(_, _, _)
Reaches(lp, plan, node) ==
    IF Len(node.x) = Len(lp.vars)
    THEN AllRowsMet(lp, node.res)
    ELSE \E c \in Children(lp, plan, node) : Reaches(lp, plan, c)

\* whether the feasible region is not empty
Solvable(lp) ==
    EmptyRowsMet(lp) /\ \E plan \in {Plan(lp)} : Reaches(lp, plan, Root(lp))

\* the cheapest of a set of nodes
Cheapest(S) ==
    IF S = {} THEN {}
    ELSE LET best == Min({p.cost : p \in S}) IN {p \in S : p.cost = best}

\* the feasible points of least cost among those that extend node
RECURSIVE Search(_, _, _)
Search(lp, plan, node) ==
    IF Len(node.x) = Len(lp.vars)
    THEN IF AllRowsMet(lp, node.res) THEN {node} ELSE {}
    ELSE Cheapest(UNION {Search(lp, plan, c) : c \in Children(lp, plan, node)})

\* every feasible point at which the objective is least: the solver returns one
OptimalSolutions(lp) ==
    IF EmptyRowsMet(lp)
    THEN UNION {{p.x : p \in Search(lp, plan, Root(lp))} : plan \in {Plan(lp)}}
    ELSE {}

\* what the variables hold after a solve that ends Infeasible: the solver's last
\* point, which satisfies no contract (here each value is 0 or the total), or None
\* (the empty sequence) when no value was assigned
InfeasibleValues(lp, total) ==
    IF Len(lp.vars) = 0 THEN {<<>>}
    ELSE {<<>>} \cup [1..Len(lp.vars) -> {0, total}]

---------------------------------------------------------------------------
(* Lines 68-77: one result row per decision variable *)

\* mutant: the Cost of a row is its weight, not multiplied by the cost per kg
ResultRowsNoCost(lp, x) ==
    [i \in DOMAIN lp.vars |->
        [Warehouse |-> lp.vars[i][1],
         Mode |-> lp.vars[i][2],
         Weight |-> x[i],
         Cost |-> x[i]]]

ResultRows(lp, x) ==
    [i \in DOMAIN lp.vars |->
        [Warehouse |-> lp.vars[i][1],
         Mode |-> lp.vars[i][2],
         Weight |-> x[i],
         Cost |-> x[i] * cost_per_kg[lp.vars[i][2]]]]

(* Lines 107, 154: results_df.groupby(...) sums *)

ModeWeight(rows, m) ==
    SumSeq([i \in DOMAIN rows |-> IF rows[i].Mode = m THEN rows[i].Weight ELSE 0])

ModeCost(rows, m) ==
    SumSeq([i \in DOMAIN rows |-> IF rows[i].Mode = m THEN rows[i].Cost ELSE 0])

WarehouseAllocated(rows, w) ==
    SumSeq([i \in DOMAIN rows |-> IF rows[i].Warehouse = w THEN rows[i].Weight ELSE 0])

ModeTotals(rows) ==
    [m \in {rows[i].Mode : i \in DOMAIN rows} |->
        [Weight |-> ModeWeight(rows, m), Cost |-> ModeCost(rows, m)]]

WarehouseTotals(rows) ==
    [w \in {rows[i].Warehouse : i \in DOMAIN rows} |-> WarehouseAllocated(rows, w)]

---------------------------------------------------------------------------
(* The script, statement group by statement group *)

Init ==
    /\ csv \in Inputs
    /\ data = <<>>
    /\ grouped_data = <<>>
    /\ total_actual_weight = 0
    /\ problem = NoProblem
    /\ status = "Not Solved"
    /\ varValue = <<>>
    /\ results = <<>>
    /\ mode_totals = <<>>
    /\ warehouse_totals = <<>>
    /\ minimized_cost = 0
    /\ pc = "start"
    /\ error = "none"

\* lines 7-10
LoadData ==
    /\ pc = "start"
    /\ data' = WithKg(csv)
    /\ pc' = "loaded"
    /\ UNCHANGED <<csv, grouped_data, total_actual_weight, problem, status, varValue,
                   results, mode_totals, warehouse_totals, minimized_cost, error>>

\* lines 19-21
Aggregate ==
    /\ pc = "loaded"
    /\ grouped_data' = GroupBy(data)
    /\ total_actual_weight' = TotalWeight(data)
    /\ pc' = "aggregated"
    /\ UNCHANGED <<csv, data, problem, status, varValue, results, mode_totals,
                   warehouse_totals, minimized_cost, error>>

\* lines 23-63
BuildModel ==
    /\ pc = "aggregated"
    /\ ~UnknownMode(grouped_data)
    /\ problem' = BuildProblem(grouped_data, total_actual_weight)
    /\ pc' = "built"
    /\ UNCHANGED <<csv, data, grouped_data, total_actual_weight, status, varValue,
                   results, mode_totals, warehouse_totals, minimized_cost, error>>

\* line 35 raises KeyError: the script ends before any constraint is added
BuildKeyError ==
    /\ pc = "aggregated"
    /\ UnknownMode(grouped_data)
    /\ error' = "KeyError"
    /\ pc' = "failed"
    /\ UNCHANGED <<csv, data, grouped_data, total_actual_weight, problem, status,
                   varValue, results, mode_totals, warehouse_totals, minimized_cost>>

\* line 66, the program has an optimal solution: the solver returns one of them
SolveOptimal ==
    /\ pc = "built"
    /\ \E x \in OptimalSolutions(problem) :
          /\ varValue' = x
          /\ status' = "Optimal"
    /\ pc' = "solved"
    /\ UNCHANGED <<csv, data, grouped_data, total_actual_weight, problem, results,
                   mode_totals, warehouse_totals, minimized_cost, error>>

\* line 66, no assignment satisfies the constraints: solve() returns normally,
\* the outcome is kept in problem.status only
SolveInfeasible ==
    /\ pc = "built"
    /\ ~Solvable(problem)
    /\ \E x \in InfeasibleValues(problem, total_actual_weight) : varValue' = x
    /\ status' = "Infeasible"
    /\ pc' = "solved"
    /\ UNCHANGED <<csv, data, grouped_data, total_actual_weight, problem, results,
                   mode_totals, warehouse_totals, minimized_cost, error>>

\* lines 68-77: status is not read; every variable has a value
CollectResults ==
    /\ pc = "solved"
    /\ Len(varValue) = Len(problem.vars)
    /\ results' = ResultRows(problem, varValue)
    /\ pc' = "collected"
    /\ UNCHANGED <<csv, data, grouped_data, total_actual_weight, problem, status,
                   varValue, mode_totals, warehouse_totals, minimized_cost, error>>

\* line 75: var.varValue is None, None * cost raises TypeError on the first row
CollectTypeError ==
    /\ pc = "solved"
    /\ Len(varValue) # Len(problem.vars)
    /\ error' = "TypeError"
    /\ pc' = "failed"
    /\ UNCHANGED <<csv, data, grouped_data, total_actual_weight, problem, status,
                   varValue, results, mode_totals, warehouse_totals, minimized_cost>>

\* lines 79-159: the aggregates that are plotted and printed
Report ==
    /\ pc = "collected"
    /\ results # <<>>
    /\ mode_totals' = ModeTotals(results)
    /\ warehouse_totals' = WarehouseTotals(results)
    /\ minimized_cost' = ObjectiveValue(problem, varValue)
    /\ pc' = "done"
    /\ UNCHANGED <<csv, data, grouped_data, total_actual_weight, problem, status,
                   varValue, results, error>>

\* line 107: a DataFrame built from no rows has no 'Mode' column, groupby raises
ReportKeyError ==
    /\ pc = "collected"
    /\ results = <<>>
    /\ error' = "KeyError"
    /\ pc' = "failed"
    /\ UNCHANGED <<csv, data, grouped_data, total_actual_weight, problem, status,
                   varValue, results, mode_totals, warehouse_totals, minimized_cost>>

Next ==
    \/ LoadData
    \/ Aggregate
    \/ BuildModel
    \/ BuildKeyError
    \/ SolveOptimal
    \/ SolveInfeasible
    \/ CollectResults
    \/ CollectTypeError
    \/ Report
    \/ ReportKeyError

Spec == Init /\ [][Next]_vars

---------------------------------------------------------------------------
(* Properties.  They are stated on the rows of train.csv (grams) and on    *)
(* the result rows (kg): 1000 g = 1 kg, and a share t/10 of G grams is     *)
(* compared as  10000 * kg  against  t * G.                                *)

InputGrams == SumSeq([i \in DOMAIN csv |-> csv[i].Weight_in_gms])

InputGramsAt(w) ==
    SumSeq([i \in DOMAIN csv |->
              IF csv[i].Warehouse_block = w THEN csv[i].Weight_in_gms ELSE 0])

InputWarehouses == {csv[i].Warehouse_block : i \in DOMAIN csv}

InputModes == {csv[i].Mode_of_Shipment : i \in DOMAIN csv}

RowsWeight == SumSeq([i \in DOMAIN results |-> results[i].Weight])

RowsCost == SumSeq([i \in DOMAIN results |-> results[i].Cost])

OptimalRows == status = "Optimal" /\ pc \in {"collected", "done"}

\* C1 (conservation): in every Optimal run the Weight fields of the result rows
\* add up to the total weight of the input rows.
C1_Conservation == OptimalRows => 1000 * RowsWeight = InputGrams

\* an Optimal run over two or more cells in which a cell's weight was moved
C1_Witness ==
    /\ OptimalRows
    /\ Len(results) >= 2
    /\ \E i \in DOMAIN results : results[i].Weight # grouped_data[i].Weight_in_kg

\* C2 (diversity bounds): in every Optimal run each mode of the cost table is
\* allocated at least 0.2 and at most 0.5 of the total input weight.
C2_DiversityBounds ==
    OptimalRows =>
        \A m \in DOMAIN cost_per_kg :
            /\ 10000 * ModeWeight(results, m) >= 2 * InputGrams
            /\ 10000 * ModeWeight(results, m) <= 5 * InputGrams

\* an Optimal run with one mode at its 50% cap and another at its 20% floor
C2_Witness ==
    /\ OptimalRows
    /\ InputGrams > 0
    /\ \E m \in DOMAIN cost_per_kg : 10000 * ModeWeight(results, m) = 5 * InputGrams
    /\ \E m \in DOMAIN cost_per_kg : 10000 * ModeWeight(results, m) = 2 * InputGrams

\* C3 (capacity bound): in every Optimal run each warehouse of the data is
\* allocated at most 1.1 times its summed historical weight.
C3_CapacityBound ==
    OptimalRows =>
        \A w \in InputWarehouses :
            10000 * WarehouseAllocated(results, w) <= 11 * InputGramsAt(w)

\* an Optimal run over two warehouses, one of them filled beyond its historical
\* weight, up to its capacity
C3_Witness ==
    /\ OptimalRows
    /\ Cardinality(InputWarehouses) = 2
    /\ \E w \in InputWarehouses :
          /\ 10000 * WarehouseAllocated(results, w) = 11 * InputGramsAt(w)
          /\ InputGramsAt(w) > 0

(* The program of the specification, written from the input rows: one      *)
(* variable per result row, cost per kg of the row's mode, mass balance,   *)
(* the 20% and 50% rows of every mode of the cost table, the 1.1x row of   *)
(* every warehouse.  Right-hand sides are in tenths of kg (100 g).         *)
StatedProblem ==
    LET n == Len(results)
        modes == CostModes
        whs == SelectSeq(WarehouseOrder, LAMBDA w : w \in InputWarehouses)
    IN [vars |-> [i \in 1..n |-> <<results[i].Warehouse, results[i].Mode>>],
        objective |-> [i \in 1..n |-> cost_per_kg[results[i].Mode]],
        constraints |->
            <<[kind |-> "mass_balance", tag |-> "", vars |-> 1..n, sense |-> "EQ",
               rhs |-> InputGrams \div 100]>>
            \o [j \in DOMAIN modes |->
                  [kind |-> "min_allocation", tag |-> modes[j],
                   vars |-> {i \in 1..n : results[i].Mode = modes[j]}, sense |-> "GE",
                   rhs |-> (2 * InputGrams) \div 1000]]
            \o [j \in DOMAIN modes |->
                  [kind |-> "max_allocation", tag |-> modes[j],
                   vars |-> {i \in 1..n : results[i].Mode = modes[j]}, sense |-> "LE",
                   rhs |-> (5 * InputGrams) \div 1000]]
            \o [j \in DOMAIN whs |->
                  [kind |-> "capacity", tag |-> whs[j],
                   vars |-> {i \in 1..n : results[i].Warehouse = whs[j]}, sense |-> "LE",
                   rhs |-> (11 * InputGramsAt(whs[j])) \div 1000]]]

\* what the variables not yet chosen at node cost at least: a row that still
\* lacks r tenths of kg takes them from its variables not yet chosen, at no
\* less than the cheapest of them (all costs are >= 0)
CostToCome(lp, node) ==
    LET n == Len(node.x)
        need == {j \in DOMAIN node.res :
                   /\ lp.constraints[j].sense \in {"GE", "EQ"}
                   /\ node.res[j] > 0
                   /\ \E i \in lp.constraints[j].vars : i > n}
    IN Max({0} \cup
           {((node.res[j] + 9) \div 10)
              * Min({lp.objective[i] : i \in {k \in lp.constraints[j].vars : k > n}}) :
              j \in need})

\* no feasible point of lp that extends node costs less than bound
RECURSIVE NoneCheaper(_, _, _, _)
NoneCheaper(lp, plan, node, bound) ==
    IF Len(node.x) = Len(lp.vars)
    THEN AllRowsMet(lp, node.res) => node.cost >= bound
    ELSE \/ node.cost + CostToCome(lp, node) >= bound
         \/ \A c \in Children(lp, plan, node) : NoneCheaper(lp, plan, c, bound)

\* C4 (optimality): in every Optimal run the rows are a feasible allocation of
\* the stated program, and no feasible allocation of it costs less.  Stated where
\* the rows are produced; no later statement changes them.
C4_Optimality ==
    (status = "Optimal" /\ pc = "collected") =>
        \A lp \in {StatedProblem} :
            /\ Feasible(lp, [i \in DOMAIN results |-> results[i].Weight])
            /\ \A plan \in {Plan(lp)}, bound \in {SumSeq([i \in DOMAIN results |->
                              results[i].Weight * cost_per_kg[results[i].Mode]])} :
                  NoneCheaper(lp, plan, Root(lp), bound)

\* an Optimal run over two warehouses whose allocation costs less than the
\* historical one
C4_Witness ==
    /\ OptimalRows
    /\ Cardinality(InputWarehouses) = 2
    /\ RowsCost < SumSeq([i \in DOMAIN grouped_data |->
                            grouped_data[i].Weight_in_kg
                              * cost_per_kg[grouped_data[i].Mode_of_Shipment]])

\* C5 (cost consistency): in every Optimal run each row's Cost is its Weight
\* times the cost per kg of its mode, and the printed minimized cost is the sum
\* of the rows' Cost.
C5_CostConsistency ==
    (status = "Optimal" /\ pc = "done") =>
        /\ \A i \in DOMAIN results :
              results[i].Cost = results[i].Weight * cost_per_kg[results[i].Mode]
        /\ minimized_cost = RowsCost

\* an Optimal run that printed a positive cost over rows of different modes
C5_Witness ==
    /\ status = "Optimal"
    /\ pc = "done"
    /\ minimized_cost > 0
    /\ Cardinality({results[i].Mode : i \in DOMAIN results}) = 3

\* C6 (no partial success): a run whose solve outcome is not Optimal produces
\* no result row and no aggregate, and ends with the failure surfaced.
C6_NoPartialSuccess ==
    status = "Infeasible" =>
        /\ Len(results) = 0
        /\ DOMAIN mode_totals = {}
        /\ DOMAIN warehouse_totals = {}
        /\ pc \notin {"collected", "done"}

\* C7 (empty input): with no input row the run fails with EmptyInputError at
\* aggregation, before a program is built or solved.
C7_EmptyInput ==
    (csv = <<>> /\ pc \notin {"start", "loaded"}) =>
        /\ error = "EmptyInputError"
        /\ problem = NoProblem
        /\ status = "Not Solved"

\* C8 (scenario B): one warehouse with Flight 40, Ship 30, Road 30 kg ends
\* Optimal with exactly Road 50, Ship 30, Flight 20 kg, at cost 950.
C8_ScenarioB ==
    csv = ScenarioB =>
        /\ pc # "failed"
        /\ pc \in {"solved", "collected", "done"} => status = "Optimal"
        /\ pc \in {"collected", "done"} =>
              /\ Len(results) = 3
              /\ \A i \in DOMAIN results :
                    results[i].Weight = [Road |-> 50, Ship |-> 30, Flight |-> 20][results[i].Mode]
              /\ {results[i].Mode : i \in DOMAIN results} = {"Road", "Ship", "Flight"}
              /\ RowsCost = 950
        /\ pc = "done" => minimized_cost = 950

\* scenario B has run to its end
C8_Witness == csv = ScenarioB /\ pc = "done"

\* C9 (scenario A): one warehouse, one mode Road of 100 kg ends with
\* InfeasibleModelError and no allocation.
C9_ScenarioA ==
    csv = ScenarioA =>
        /\ Len(results) = 0
        /\ pc \notin {"collected", "done"}
        /\ pc = "failed" => error = "InfeasibleModelError"

\* the program without its capacity rows (constraint 4)
WithoutCapacity(lp) ==
    [lp EXCEPT !.constraints = SelectSeq(@, LAMBDA c : c.kind # "capacity")]

Built == pc \in {"built", "solved", "collected", "done"}

\* C10 as stated (feasibility boundary): for every input, also one that lacks
\* a mode of the cost table, constraints 1-3 alone are feasible.
C10_FeasibleWithoutCapacity == Built => Solvable(WithoutCapacity(problem))

\* C10 amended: for every input in which each mode of the cost table has a
\* cell, constraints 1-3 alone are feasible, so an infeasible program is
\* infeasible by its capacity rows.
C10_FeasibleWithoutCapacityAllModes ==
    (Built /\ \A m \in DOMAIN cost_per_kg : m \in InputModes) =>
        Solvable(WithoutCapacity(problem))

\* a run with all three modes in the data that ended Infeasible
C10_Witness ==
    /\ status = "Infeasible"
    /\ \A m \in DOMAIN cost_per_kg : m \in InputModes
    /\ ~Solvable(problem)
    /\ Solvable(WithoutCapacity(problem))

====
